---- MODULE Spec2Model ----
(***************************************************************************)
(* ARIS risk index: the scoring function calculate_aris_data, the          *)
(* explanation function explain_risk and the Streamlit main flow of        *)
(* app.py.                                                                 *)
(*                                                                         *)
(* Numbers.  The sliders deliver decimals; the model keeps each reading as *)
(* an integer in the slider's own step unit:                               *)
(*   vibration, temp, lube_health, stress_in, rul_in   tenths              *)
(*   corrosion_score, change_rate, flow_rate           hundredths          *)
(* and the classifier's probability in units of 1/400.  All arithmetic is  *)
(* exact rational arithmetic on these integers: augmentation points are    *)
(* carried in units of 1/88 point, influences in units of 1/176000.        *)
(* Python computes in binary floating point.  Where the exact value sits   *)
(* on a rounding boundary (round() of an exact half, int() of an exact     *)
(* integer that was summed from inexact terms, a comparison of two equal   *)
(* exact values) the float result can fall on either side, so the model    *)
(* returns the SET of results the float evaluation can give there.         *)
(***************************************************************************)
EXTENDS Integers, Sequences, FiniteSets, TLC

VARIABLES pc, model, loads, runs, calls, reading, failure_prob, result, explanation

vars == <<pc, model, loads, runs, calls, reading, failure_prob, result, explanation>>

\* Number of script executions (Streamlit reruns the script on every widget event).
MaxRuns == 2

(***************************************************************************)
(* Inputs.  Samples of the slider ranges of the sidebar.                   *)
(***************************************************************************)
VibrationValues == {10, 70, 130, 250}
TempValues == {300, 400, 550, 850}
CorrosionValues == {10, 12, 14, 20, 100}
ChangeRateValues == {0, 15, 19, 35, 100}
FlowRateValues == {50, 100, 150}
LubeHealthValues == {1, 8}
StressValues == {4, 5, 6, 7, 9}
RulValues == {2, 7}

Readings ==
    [vibration : VibrationValues, temp : TempValues,
     corrosion_score : CorrosionValues, change_rate : ChangeRateValues,
     flow_rate : FlowRateValues, lube_health : LubeHealthValues,
     stress_in : StressValues, rul_in : RulValues]

NoReading ==
    [vibration |-> 0, temp |-> 0, corrosion_score |-> 0, change_rate |-> 0,
     flow_rate |-> 0, lube_health |-> 0, stress_in |-> 0, rul_in |-> 0]

\* What model.predict_proba(new_data)[0][1] can do: raise, or return a number
\* (in 1/400).  A probability lies in 0..400; -200 and 480 are the values an
\* ill-behaved classifier could return (-0.5 and 1.2).
ProbabilityValues == {-200, 0, 5, 40, 200, 280, 400, 480}

PredictOutcomes ==
    {[raised |-> TRUE, p |-> 0]} \cup [raised : {FALSE}, p : ProbabilityValues]

NotCalled == [raised |-> FALSE, p |-> 0]

(***************************************************************************)
(* Python numerics.                                                        *)
(***************************************************************************)
\* round(num/den), den > 0: nearest integer, an exact half to the even neighbour.
RoundHalfEven(num, den) ==
    LET q == num \div den
        r == num % den
    IN  IF 2 * r < den THEN q
        ELSE IF 2 * r > den THEN q + 1
        ELSE IF q % 2 = 0 THEN q ELSE q + 1

\* round() of a float whose exact value is num/den: at an exact half the float is
\* a hair above or below it, and either neighbour can come out.
RoundFloat(num, den) ==
    LET q == num \div den
        r == num % den
    IN  IF 2 * r < den THEN {q}
        ELSE IF 2 * r > den THEN {q + 1}
        ELSE {q, q + 1}

\* int(y) of a float whose exact value is num/den: truncation toward zero.  When
\* the exact value is an integer n and the float was summed from inexact terms
\* (noisy), a float below n truncates one lower for n > 0 (only if some term can
\* be rounded below its exact value: mayBelow), a float above n one higher for n < 0.
IntFloat(num, den, noisy, mayBelow) ==
    LET n == IF num >= 0 THEN num \div den ELSE -((-num) \div den)
    IN  IF num % den # 0 THEN {n}
        ELSE IF n > 0 /\ mayBelow THEN {n - 1, n}
        ELSE IF n < 0 /\ noisy THEN {n, n + 1}
        ELSE {n}

(***************************************************************************)
(* calculate_aris_data                                                     *)
(***************************************************************************)
\* Mutant: the probability scaled by 100 instead of 120.
base_score_Times100(p) == RoundFloat(p, 4)

\* round(failure_prob * 120), failure_prob = p/400.
base_score(p) == RoundFloat(3 * p, 10)

\* temp_normalized = (temp - 30) / 55 > 0.3, then (temp_normalized - 0.3) * 150,
\* in 1/88 point.
TempPoints(rd) ==
    IF 10 * (rd.temp - 300) > 3 * 550 THEN 24 * (rd.temp - 465) ELSE 0

\* vib_normalized = (vibration - 1) / 24 > 0.3, then (vib_normalized - 0.3) * 150.
VibPoints(rd) ==
    IF 10 * (rd.vibration - 10) > 3 * 240 THEN 55 * (rd.vibration - 82) ELSE 0

\* flow_rate < 0.7: (0.7 - flow_rate) * 50; elif flow_rate > 1.1: (flow_rate - 1.1) * 75.
FlowPoints(rd) ==
    IF rd.flow_rate < 70 THEN 44 * (70 - rd.flow_rate)
    ELSE IF rd.flow_rate > 110 THEN 66 * (rd.flow_rate - 110)
    ELSE 0

\* Mutant: the lubrication slope 10 instead of 100.
LubePoints_Slope10(rd) ==
    IF rd.lube_health < 4 THEN 88 * (4 - rd.lube_health) ELSE 0

\* lube_health < 0.4: (0.4 - lube_health) * 100.
LubePoints(rd) ==
    IF rd.lube_health < 4 THEN 880 * (4 - rd.lube_health) ELSE 0

\* stress_in > 0.6: (stress_in - 0.6) * 80.
StressPoints(rd) ==
    IF rd.stress_in > 6 THEN 704 * (rd.stress_in - 6) ELSE 0

\* rul_in < 0.3: (0.3 - rul_in) * 120.
RulPoints(rd) ==
    IF rd.rul_in < 3 THEN 1056 * (3 - rd.rul_in) ELSE 0

extra_risk_points(rd) ==
    TempPoints(rd) + VibPoints(rd) + FlowPoints(rd) + LubePoints(rd)
        + StressPoints(rd) + RulPoints(rd)

\* Some term of extra_risk_points is inexact in floating point.
Noisy(rd) == extra_risk_points(rd) > 0

\* Some term can come out below its exact value.  In IEEE double arithmetic
\* (0.4 - lube_health) * 100 is never below it on the slider's values, and
\* (stress_in - 0.6) * 80 is below it only for stress_in = 0.7; the other terms
\* can be (for instance (0.3 - 0.2) * 120 = 11.999999999999998).
MayRoundBelow(rd) ==
    \/ TempPoints(rd) > 0
    \/ VibPoints(rd) > 0
    \/ FlowPoints(rd) > 0
    \/ rd.stress_in = 7
    \/ RulPoints(rd) > 0

\* Mutant: the sum is not capped at 100.
FinalRisk_NoCap(base, rd) ==
    IntFloat(88 * base + extra_risk_points(rd), 88, Noisy(rd), MayRoundBelow(rd))

\* risk_index = int(min(100, risk_index + extra_risk_points)), base in points.
FinalRisk(base, rd) ==
    LET y == 88 * base + extra_risk_points(rd)
    IN  IF y > 88 * 100 THEN {100}
        ELSE IntFloat(y, 88, Noisy(rd), MayRoundBelow(rd))

\* Influences in 1/176000: 0.45 * (corrosion_score - 0.1) / 0.9, 0.40 * change_rate,
\* 0.15 * (temp_normalized + vib_normalized) / 2.
corrosion_influence(rd) == 880 * (rd.corrosion_score - 10)

rate_influence(rd) == 704 * rd.change_rate

temp_vib_influence(rd) == 24 * (rd.temp - 300) + 55 * (rd.vibration - 10)

total_dynamic_influence(rd) ==
    corrosion_influence(rd) + rate_influence(rd) + temp_vib_influence(rd)

\* Mutant: the rescale step is missing.
Rescale_Skipped(c, r) == <<c, r>>

\* if total_contribution > 100: both shares are rescaled, each rounded on its own.
\* The operands are integers, so the quotient is exact where it is a half.
Rescale(c, r) ==
    IF c + r > 100
    THEN <<RoundHalfEven(c * 100, c + r), RoundHalfEven(r * 100, c + r)>>
    ELSE <<c, r>>

\* The pairs (corrosion_contribution, rate_contribution) before the rescale step.
\* total_dynamic_influence > 0.01 is 1760/176000; at exact equality the float
\* comparison can go either way.
RawContributions(rd) ==
    LET t == total_dynamic_influence(rd)
    IN  (IF t >= 1760
         THEN {<<c, r>> : c \in RoundFloat(100 * corrosion_influence(rd), t),
                          r \in RoundFloat(100 * rate_influence(rd), t)}
         ELSE {})
        \cup (IF t <= 1760 THEN {<<45, 40>>} ELSE {})

Contributions(rd) == {Rescale(cr[1], cr[2]) : cr \in RawContributions(rd)}

\* return 0, 0, 0 (no model, or predict_proba raised)
Degraded(path) ==
    [status |-> "returned", value |-> <<0, 0, 0>>, path |-> path, base |-> 0]

\* Mutant: predict_proba is called outside the try block, so its exception
\* leaves the call.
calculate_aris_data_NoExcept(m, rd, out) ==
    IF m = "none" THEN {Degraded("no_model")}
    ELSE IF out.raised
    THEN {[status |-> "raised", value |-> <<0, 0, 0>>, path |-> "predict_failed",
           base |-> 0]}
    ELSE UNION {{[status |-> "returned", value |-> <<ri, cr[1], cr[2]>>,
                  path |-> "assessed", base |-> b] :
                     ri \in FinalRisk(b, rd), cr \in Contributions(rd)} :
                b \in base_score(out.p)}

\* Every result the call can produce: status is how the call ends, value the
\* returned tuple (risk_index, corrosion_contribution, rate_contribution), path
\* the return statement taken, base the value round(failure_prob * 120) gave.
calculate_aris_data(m, rd, out) ==
    IF m = "none" THEN {Degraded("no_model")}
    ELSE IF out.raised THEN {Degraded("predict_failed")}
    ELSE UNION {{[status |-> "returned", value |-> <<ri, cr[1], cr[2]>>,
                  path |-> "assessed", base |-> b] :
                     ri \in FinalRisk(b, rd), cr \in Contributions(rd)} :
                b \in base_score(out.p)}

(***************************************************************************)
(* explain_risk                                                            *)
(***************************************************************************)
\* The dominant factor named in the recommendation text (vibration_in < 10 mm/s).
dominant_factor(corr_contrib, vibration_in) ==
    IF corr_contrib > (100 - corr_contrib) \/ (corr_contrib > 50 /\ vibration_in < 100)
    THEN "corrosion"
    ELSE "vibration_temperature"

\* Mutant: the first boundary taken inclusively (<= 20).
delta_text_InclusiveUpper(risk_index) ==
    IF risk_index <= 20 THEN "Safe"
    ELSE IF risk_index < 35 THEN "Low"
    ELSE IF risk_index < 50 THEN "Medium"
    ELSE IF risk_index < 80 THEN "High"
    ELSE "ImminentFailure"

\* delta_text: the tier shown for the index.
delta_text(risk_index) ==
    IF risk_index < 20 THEN "Safe"
    ELSE IF risk_index < 35 THEN "Low"
    ELSE IF risk_index < 50 THEN "Medium"
    ELSE IF risk_index < 80 THEN "High"
    ELSE "ImminentFailure"

\* The branch of the if/elif chain that prints the recommendation, named by the
\* tier whose recommendation it prints.
recommendation(risk_index) ==
    IF risk_index < 20 THEN "Safe"
    ELSE IF 20 <= risk_index /\ risk_index < 35 THEN "Low"
    ELSE IF 35 <= risk_index /\ risk_index < 50 THEN "Medium"
    ELSE IF 50 <= risk_index /\ risk_index < 80 THEN "High"
    ELSE "ImminentFailure"

\* vib_temp_contrib = 100 - corr_contrib - rate_contrib, floored at 0.
vib_temp_contrib(corr_contrib, rate_contrib) ==
    IF 100 - corr_contrib - rate_contrib < 0 THEN 0
    ELSE 100 - corr_contrib - rate_contrib

\* Mutant: the mechanical share must be strictly above the rate share, so a tie
\* between the two goes to the rate.
root_cause_RateWinsTie(corr_contrib, rate_contrib) ==
    LET vt == vib_temp_contrib(corr_contrib, rate_contrib)
    IN  IF corr_contrib >= vt /\ corr_contrib >= rate_contrib THEN "corrosion"
        ELSE IF vt >= corr_contrib /\ vt > rate_contrib THEN "mechanical"
        ELSE "rate"

\* The factor the root-cause section ranks first.
root_cause(corr_contrib, rate_contrib) ==
    LET vt == vib_temp_contrib(corr_contrib, rate_contrib)
    IN  IF corr_contrib >= vt /\ corr_contrib >= rate_contrib THEN "corrosion"
        ELSE IF vt >= corr_contrib /\ vt >= rate_contrib THEN "mechanical"
        ELSE "rate"

\* The alert conditions, one per message appended.
FlowLowAlert(flow_rate) == flow_rate < 70

FlowHighAlert(flow_rate) == flow_rate > 110

LubeAlert(lube_health) == lube_health < 4

\* Mutant: the stress alert fires above 0.7 instead of 0.6.
StressAlert_WrongThreshold(stress_in) == stress_in > 7

StressAlert(stress_in) == stress_in > 6

RulAlert(rul_in) == rul_in < 3

\* messages, in the order they are appended.
messages(flow_rate, lube_health, stress_in, rul_in) ==
    (IF FlowLowAlert(flow_rate) THEN <<"flow_low">> ELSE <<>>)
    \o (IF FlowHighAlert(flow_rate) THEN <<"flow_high">> ELSE <<>>)
    \o (IF LubeAlert(lube_health) THEN <<"lube">> ELSE <<>>)
    \o (IF StressAlert(stress_in) THEN <<"stress">> ELSE <<>>)
    \o (IF RulAlert(rul_in) THEN <<"rul">> ELSE <<>>)

\* if messages: each is printed; else the "no critical notes" line is printed.
no_concerns(msgs) == msgs = <<>>

\* What one call displays.  (The gauge, the mock 30-day history and the fixed
\* texts carry no decision and are left out.)
explain_risk(risk_index, corr_contrib, rate_contrib, vibration_in, flow_rate, lube_health, stress_in, rul_in) ==
    LET msgs == messages(flow_rate, lube_health, stress_in, rul_in)
    IN  [delta_text |-> delta_text(risk_index),
         recommendation |-> recommendation(risk_index),
         dominant_factor |-> dominant_factor(corr_contrib, vibration_in),
         vib_temp_contrib |-> vib_temp_contrib(corr_contrib, rate_contrib),
         root_cause |-> root_cause(corr_contrib, rate_contrib),
         messages |-> msgs,
         no_concerns |-> no_concerns(msgs)]

NoExplanation ==
    [delta_text |-> "", recommendation |-> "", dominant_factor |-> "",
     vib_temp_contrib |-> 0, root_cause |-> "", messages |-> <<>>,
     no_concerns |-> FALSE]

NoResult == [status |-> "", value |-> <<0, 0, 0>>, path |-> "", base |-> 0]

(***************************************************************************)
(* The script: load the model, check it, read the sliders, score, explain. *)
(***************************************************************************)
\* joblib.load('aris_model.pkl') inside load_model: the model, or None when the
\* file is missing or the load raises.
LoadOutcomes == {"loaded", "none"}

\* Mutant: the availability check is missing.
ModelUnavailable_Ignored(m) == FALSE

\* if model is None: warn and st.stop().
ModelUnavailable(m) == m = "none"

\* model = load_model().  st.cache_resource runs the body on the first call of
\* the process and hands the cached value to every later call.
load_model ==
    /\ pc = "start"
    /\ IF model = "unloaded"
       THEN /\ model' \in LoadOutcomes
            /\ loads' = loads + 1
       ELSE UNCHANGED <<model, loads>>
    /\ pc' = "check"
    /\ UNCHANGED <<runs, calls, reading, failure_prob, result, explanation>>

\* The model failed to load: the page reports it and the script stops.
StopUnavailable ==
    /\ pc = "check"
    /\ ModelUnavailable(model)
    /\ pc' = "stopped"
    /\ UNCHANGED <<model, loads, runs, calls, reading, failure_prob, result, explanation>>

\* The sidebar: the eight sliders deliver the reading.
ReadSliders ==
    /\ pc = "check"
    /\ ~ModelUnavailable(model)
    /\ reading' \in Readings
    /\ pc' = "inputs"
    /\ UNCHANGED <<model, loads, runs, calls, failure_prob, result, explanation>>

\* risk_result, corr_contrib, rate_contrib = calculate_aris_data(model, ...).
\* predict_proba is called only when there is a model.  An exception leaving
\* the call ends the script.
Calculate ==
    /\ pc = "inputs"
    /\ \E out \in (IF model = "none" THEN {NotCalled} ELSE PredictOutcomes) :
          /\ failure_prob' = out
          /\ result' \in calculate_aris_data(model, reading, out)
    /\ calls' = calls + 1
    /\ pc' = IF result'.status = "raised" THEN "crashed" ELSE "calculated"
    /\ UNCHANGED <<model, loads, runs, reading, explanation>>

\* explain_risk(risk_result, corr_contrib, rate_contrib, vibration_in, ...).
Explain ==
    /\ pc = "calculated"
    /\ explanation' = explain_risk(result.value[1], result.value[2], result.value[3],
                                   reading.vibration, reading.flow_rate,
                                   reading.lube_health, reading.stress_in,
                                   reading.rul_in)
    /\ pc' = "explained"
    /\ UNCHANGED <<model, loads, runs, calls, reading, failure_prob, result>>

\* A widget event or a reload runs the script again from the top; only the
\* cached model outlives the run.
Rerun ==
    /\ pc \in {"stopped", "explained", "crashed"}
    /\ runs < MaxRuns
    /\ runs' = runs + 1
    /\ pc' = "start"
    /\ reading' = NoReading
    /\ failure_prob' = NotCalled
    /\ result' = NoResult
    /\ explanation' = NoExplanation
    /\ UNCHANGED <<model, loads, calls>>

Init ==
    /\ pc = "start"
    /\ model = "unloaded"
    /\ loads = 0
    /\ runs = 1
    /\ calls = 0
    /\ reading = NoReading
    /\ failure_prob = NotCalled
    /\ result = NoResult
    /\ explanation = NoExplanation

Next ==
    \/ load_model
    \/ StopUnavailable
    \/ ReadSliders
    \/ Calculate
    \/ Explain
    \/ Rerun

Spec == Init /\ [][Next]_vars

(***************************************************************************)
(* The two functions on their own: calculate_aris_data is called with any  *)
(* model argument (None included) and any reading, then explain_risk with  *)
(* what it returned.                                                       *)
(***************************************************************************)
InitFn ==
    /\ pc = "inputs"
    /\ model \in LoadOutcomes
    /\ loads = 1
    /\ runs = 1
    /\ calls = 0
    /\ reading \in Readings
    /\ failure_prob = NotCalled
    /\ result = NoResult
    /\ explanation = NoExplanation

NextFn ==
    \/ Calculate
    \/ Explain

SpecFn == InitFn /\ [][NextFn]_vars

(***************************************************************************)
(* Properties                                                              *)
(***************************************************************************)
\* calculate_aris_data has returned.
Returned == pc \in {"calculated", "explained"}

\* It returned from its last line: the classifier answered.
Assessed == Returned /\ result.path = "assessed"

\* The classifier answered with a probability, 0 <= p <= 1.
ProbabilityInRange == failure_prob.p >= 0 /\ failure_prob.p <= 400

risk_index == result.value[1]

corr_contrib == result.value[2]

rate_contrib == result.value[3]

HasMessage(tag) ==
    \E i \in 1..Len(explanation.messages) : explanation.messages[i] = tag

\* C1: for every valid reading and every classifier probability in [0,1], the
\* risk index calculate_aris_data returns is an integer between 0 and 100.
C1_RiskIndexBounded ==
    (Assessed /\ ProbabilityInRange) => risk_index \in 0..100

\* C1 witness: probability 1 on a reading with every factor out of band; the
\* sum is far above 100 and the index returned is 100.
C1_Witness ==
    /\ Assessed
    /\ failure_prob.p = 400
    /\ 88 * result.base + extra_risk_points(reading) > 88 * 200
    /\ risk_index = 100

\* C2: for every valid reading the corrosion share, the rate share and the
\* mechanical share (100 - corrosion - rate, floored at 0) are each an integer
\* between 0 and 100 and together at most 100, also when the rescale step ran.
C2_SharesBounded ==
    (pc = "explained" /\ Assessed) =>
        /\ corr_contrib \in 0..100
        /\ rate_contrib \in 0..100
        /\ explanation.vib_temp_contrib \in 0..100
        /\ corr_contrib + rate_contrib + explanation.vib_temp_contrib <= 100

\* C2 witness: the two rounded shares came to more than 100, the rescale step
\* ran and the explanation was produced from the rescaled shares.
C2_Witness ==
    /\ pc = "explained"
    /\ Assessed
    /\ \E cr \in RawContributions(reading) :
          /\ cr[1] + cr[2] > 100
          /\ Rescale(cr[1], cr[2]) = <<corr_contrib, rate_contrib>>
          /\ <<corr_contrib, rate_contrib>> # cr

\* The five bands as the specification states them.
Band(i) ==
    CASE i < 20 -> "Safe"
      [] i \in 20..34 -> "Low"
      [] i \in 35..49 -> "Medium"
      [] i \in 50..79 -> "High"
      [] i \in 80..100 -> "ImminentFailure"
      [] OTHER -> "none"

Rank(tier) ==
    CASE tier = "Safe" -> 0
      [] tier = "Low" -> 1
      [] tier = "Medium" -> 2
      [] tier = "High" -> 3
      [] tier = "ImminentFailure" -> 4
      [] OTHER -> 5

\* The mapping over the whole range 0..100.
TierTable ==
    /\ \A i \in 0..100 :
          /\ delta_text(i) = Band(i)
          /\ recommendation(i) = delta_text(i)
    /\ \A i \in 0..99 : Rank(delta_text(i)) <= Rank(delta_text(i + 1))

\* C3: the tier is a total function of the index 0..100 that follows the five
\* bands (20, 35, 50 and 80 open the bands Low, Medium, High and
\* ImminentFailure), never decreases as the index grows, and the
\* recommendation printed is the one of the tier shown.
C3_TierMapping ==
    /\ TierTable
    /\ (pc = "explained" /\ risk_index \in 0..100) =>
          /\ explanation.delta_text = Band(risk_index)
          /\ explanation.recommendation = explanation.delta_text

\* C3 witness: an assessment whose index is exactly 20 was explained as Low.
C3_Witness ==
    /\ pc = "explained"
    /\ Assessed
    /\ risk_index = 20
    /\ explanation.delta_text = "Low"
    /\ explanation.recommendation = "Low"

\* C4: called without a model, or with a classifier that raises, the function
\* returns (does not raise) the index 0 with zero corrosion and rate shares,
\* whatever the reading.
C4_DegradedReturnsZeros ==
    /\ pc # "crashed"
    /\ (Returned /\ (model = "none" \/ failure_prob.raised)) =>
          /\ result.status = "returned"
          /\ result.value = <<0, 0, 0>>

\* C4 witness: the classifier raised on a reading with factors out of band and
\* the call returned the zeros.
C4_Witness ==
    /\ Returned
    /\ model = "loaded"
    /\ failure_prob.raised
    /\ extra_risk_points(reading) > 0
    /\ result.value = <<0, 0, 0>>

\* C5: a degraded result is marked as such, so what the call returns when the
\* classifier is missing or fails is never what it returns for a successful
\* assessment of a valid reading.
C5_DegradedDistinguishable ==
    (Assessed /\ ProbabilityInRange) => result.value # Degraded("no_model").value

\* The script never scores without a model, never crashes, loads at most once.
ScoringGuarded ==
    /\ (pc \in {"inputs", "calculated", "explained", "crashed"} \/ calls > 0) =>
          model = "loaded"
    /\ pc # "crashed"
    /\ loads <= 1

\* C6: the scoring pipeline runs only after the availability check found a
\* loaded classifier; in a run where the load failed the script stops at the
\* check, without crashing and without scoring, and the load is not attempted
\* again.
C6_ScoringOnlyWithModel ==
    /\ []ScoringGuarded
    /\ [][(pc = "check" /\ model = "none") => pc' = "stopped"]_vars
    /\ [][model # "unloaded" => (model' = model /\ loads' = loads)]_vars

\* C6 witness: the load failed, the first run stopped at the check, and the
\* second run stopped there too without a second load and without scoring.
C6_Witness ==
    /\ pc = "stopped"
    /\ model = "none"
    /\ runs = 2
    /\ loads = 1
    /\ calls = 0

Scenario ==
    [vibration |-> 70, temp |-> 550, corrosion_score |-> 20, change_rate |-> 15,
     flow_rate |-> 100, lube_health |-> 8, stress_in |-> 4, rul_in |-> 7]

\* C7: for vibration 7.0, temp 55.0, corrosion 0.2, rate 0.15, flow 1.0, lube 0.8,
\* stress 0.4, rul 0.7 and probability 0.1 the base score is 12, only the
\* temperature term adds points (between 23.1 and 23.3), the index is 35 and
\* the tier is Medium.
C7_Scenario ==
    (Assessed /\ reading = Scenario /\ failure_prob.p = 40) =>
        /\ result.base = 12
        /\ extra_risk_points(reading) = TempPoints(reading)
        /\ 10 * TempPoints(reading) > 88 * 231
        /\ 10 * TempPoints(reading) < 88 * 233
        /\ risk_index = 35
        /\ (pc = "explained" => explanation.delta_text = "Medium")

\* C7 witness: the scenario was scored and explained.
C7_Witness ==
    /\ pc = "explained"
    /\ Assessed
    /\ reading = Scenario
    /\ failure_prob.p = 40
    /\ explanation.delta_text = "Medium"

\* Every input but lube_health is inside its safe band.
OtherwiseSafe(rd) ==
    /\ 10 * (rd.temp - 300) <= 3 * 550
    /\ 10 * (rd.vibration - 10) <= 3 * 240
    /\ rd.flow_rate >= 70
    /\ rd.flow_rate <= 110
    /\ rd.stress_in <= 6
    /\ rd.rul_in >= 3

\* The reading with lube_health = 0.1 was scored and explained.
LowLubeCase ==
    /\ pc = "explained"
    /\ Assessed
    /\ ProbabilityInRange
    /\ reading.lube_health = 1
    /\ OtherwiseSafe(reading)

\* The indices of the same reading with lube_health = 0.8, for the same
\* classifier answer.
SiblingRisk == FinalRisk(result.base, [reading EXCEPT !.lube_health = 8])

\* C8 as stated: with everything else in its safe band, the index for
\* lube_health = 0.1 is exactly 30 above the index for lube_health = 0.8, for
\* every probability in [0,1], and the lubrication alert is shown.
C8_Exactly30Higher ==
    LowLubeCase =>
        /\ \A o \in SiblingRisk : risk_index = o + 30
        /\ HasMessage("lube")

\* C8 amended: the index for lube_health = 0.1 is the index for
\* lube_health = 0.8 plus 30, capped at 100: exactly 30 above it while that
\* index is at most 70, and 100 otherwise; the lubrication alert is shown.
C8_30HigherCapped ==
    LowLubeCase =>
        /\ \A o \in SiblingRisk :
              risk_index = (IF o + 30 <= 100 THEN o + 30 ELSE 100)
        /\ HasMessage("lube")

\* C8 witness: base score 12, index 12 for lube_health 0.8 and 42 for 0.1, with
\* the lubrication alert.
C8_Witness ==
    /\ LowLubeCase
    /\ result.base = 12
    /\ SiblingRisk = {12}
    /\ risk_index = 42
    /\ HasMessage("lube")

\* C9: whatever number the classifier returns as the probability, below 0 and
\* above 1 included, the index of a successful assessment is an integer
\* between 0 and 100.
C9_BoundedForAnyClassifierOutput ==
    Assessed => risk_index \in 0..100

\* C10: for flow rate, lubrication, stress and RUL the alert is shown exactly
\* when the augmenter's term for that factor is positive (stress 0.9: 24 points
\* and the alert; stress 0.5: no points, no alert), and the "no critical notes"
\* line is shown exactly when no alert is.
C10_AlertsMatchAugmenter ==
    pc = "explained" =>
        /\ (HasMessage("flow_low") \/ HasMessage("flow_high")) <=> FlowPoints(reading) > 0
        /\ HasMessage("lube") <=> LubePoints(reading) > 0
        /\ HasMessage("stress") <=> StressPoints(reading) > 0
        /\ HasMessage("rul") <=> RulPoints(reading) > 0
        /\ reading.stress_in = 9 => (StressPoints(reading) = 88 * 24 /\ HasMessage("stress"))
        /\ reading.stress_in = 5 => (StressPoints(reading) = 0 /\ ~HasMessage("stress"))
        /\ explanation.no_concerns <=>
              ~\E tag \in {"flow_low", "flow_high", "lube", "stress", "rul"} : HasMessage(tag)

\* C10 witness: stress 0.9 added 24 points to an assessment and the stress
\* alert is among the messages shown.
C10_Witness ==
    /\ pc = "explained"
    /\ Assessed
    /\ reading.stress_in = 9
    /\ StressPoints(reading) = 88 * 24
    /\ HasMessage("stress")
    /\ ~explanation.no_concerns

\* The largest of three shares.
Largest(a, b, c) ==
    IF a >= b /\ a >= c THEN a ELSE IF b >= c THEN b ELSE c

\* The category with the largest share of (corrosion, rate, mechanical), a tie
\* going to corrosion before mechanical before rate.
LargestShare(c, r, m) ==
    IF c = Largest(c, r, m) THEN "corrosion"
    ELSE IF m = Largest(c, r, m) THEN "mechanical"
    ELSE "rate"

\* The root cause over every pair of corrosion and rate shares, the mechanical
\* share being 100 - corrosion - rate floored at 0.
RootCauseTable ==
    \A c \in 0..100 : \A r \in 0..100 :
        root_cause(c, r) =
            LargestShare(c, r, IF 100 - c - r < 0 THEN 0 ELSE 100 - c - r)

\* C11: the factor the root-cause section reports is the category with the
\* largest of the three shares, ties going to corrosion, then mechanical, then
\* rate of degradation.
C11_RootCauseIsLargestShare ==
    /\ RootCauseTable
    /\ pc = "explained" =>
          explanation.root_cause =
              LargestShare(corr_contrib, rate_contrib, explanation.vib_temp_contrib)

\* C11 witness: an assessment whose mechanical and rate shares are equal and
\* above the corrosion share was explained, and mechanical is reported.
C11_Witness ==
    /\ pc = "explained"
    /\ Assessed
    /\ explanation.vib_temp_contrib = rate_contrib
    /\ corr_contrib < rate_contrib
    /\ explanation.root_cause = "mechanical"

\* C12: within one call the dominant factor named in the recommendation text
\* agrees with the root-cause section: wherever the recommendation names a
\* cause (the Medium and High tiers), it names corrosion exactly when the
\* root-cause section ranks corrosion first.
C12_DominantFactorsAgree ==
    (pc = "explained" /\ Assessed /\ ProbabilityInRange
        /\ explanation.recommendation \in {"Medium", "High"}) =>
        (explanation.dominant_factor = "corrosion"
            <=> explanation.root_cause = "corrosion")

====
